---- MODULE Spec2Model ----
(***************************************************************************)
(* Model of go-ReOrderFuncs: the pipeline                                  *)
(*   ParseGoFile -> ExtractTestFunctions -> BuildOutputContent             *)
(* over texts made of characters.  A text is a sequence of one-character   *)
(* strings, a line is a sequence of characters without the newline, and    *)
(* strings.Split / strings.Join / strings.TrimSpace / strings.HasPrefix    *)
(* are computed on those sequences.  Line indices are 0-based as in the Go *)
(* code (At(lines, i) reads lines[i]); parser positions are 1-based.       *)
(***************************************************************************)
EXTENDS Integers, Sequences, FiniteSets, Bags, TLC

\* Longest input file of the pipeline specification, in lines.
MaxLines == 7

\***************************************************************************
\* Characters and the line vocabulary of the input files
\***************************************************************************
NL == "\n"

Blank == <<>>
WsLine == << " " >>
Comment == << "/", "/" >>
Pkg == << "p", "a", "c", "k", "a", "g", "e", " ", "m" >>
Imp == << "i", "m", "p", "o", "r", "t", " ", "\"", "t", "\"" >>
Close == << "}" >>
FuncKw == << "f", "u", "n", "c", " " >>
Helper == FuncKw \o << "h", "(", ")", "{", "}" >>
TestB == << "T", "e", "s", "t", "B" >>
Testa == << "T", "e", "s", "t", "a" >>
TestNames == {TestB, Testa}
Open(n) == FuncKw \o n \o << "(", ")", "{" >>
OneLine(n) == Open(n) \o << "}" >>
\* Two declarations on one line, separated by a semicolon.
TwoTests == OneLine(Testa) \o << ";" >> \o OneLine(TestB)
\* The package clause and a test function on one line.
PkgTest == Pkg \o << ";" >> \o OneLine(TestB)
\* Lines of the calls of the line classifiers and of the partition.
BlockComment == << "/", "*" >>
IndentedComment == << "\t", "/", "/" >>
CloseParen == << ")" >>
ImportPath == << "\t", "\"", "t", "\"" >>
Code == << "x" >>
StrLit == << "s", "=", "\"", "/", "/", "\"" >>

\* Byte value of the characters that occur in function names.
Ord(c) ==
    CASE c = "B" -> 66
      [] c = "T" -> 84
      [] c = "a" -> 97
      [] c = "e" -> 101
      [] c = "h" -> 104
      [] c = "s" -> 115
      [] c = "t" -> 116
      [] OTHER -> 0

\***************************************************************************
\* The Go library functions the code calls
\***************************************************************************
At(lines, i) == lines[i + 1]

IsSpace(c) == c \in {" ", "\t", "\r", NL}

RECURSIVE TrimLeft(_)
TrimLeft(s) == IF s # <<>> /\ IsSpace(Head(s)) THEN TrimLeft(Tail(s)) ELSE s

RECURSIVE TrimRight(_)
TrimRight(s) ==
    IF s # <<>> /\ IsSpace(s[Len(s)]) THEN TrimRight(SubSeq(s, 1, Len(s) - 1)) ELSE s

TrimSpace(s) == TrimRight(TrimLeft(s))

HasPrefix(s, p) == Len(s) >= Len(p) /\ SubSeq(s, 1, Len(p)) = p

HasSuffix(s, p) == Len(s) >= Len(p) /\ SubSeq(s, Len(s) - Len(p) + 1, Len(s)) = p

RECURSIVE Join(_, _)
Join(ls, sep) ==
    IF ls = <<>> THEN <<>>
    ELSE IF Len(ls) = 1 THEN ls[1]
    ELSE ls[1] \o <<sep>> \o Join(Tail(ls), sep)

\* strings.Split: the pieces of s between the occurrences of sep, one more than
\* there are occurrences.
Split(s, sep) ==
    LET at == {i \in DOMAIN s : s[i] = sep}
        n == Cardinality(at)
        cut == [k \in 0..(n + 1) |->
                   IF k = 0 THEN 0
                   ELSE IF k = n + 1 THEN Len(s) + 1
                   ELSE CHOOSE i \in at : Cardinality({j \in at : j < i}) = k - 1]
    IN [k \in 1..(n + 1) |-> SubSeq(s, cut[k - 1] + 1, cut[k] - 1)]

\* a < b for Go strings: byte-wise lexicographic order.
RECURSIVE StrLess(_, _)
StrLess(a, b) ==
    IF b = <<>> THEN FALSE
    ELSE IF a = <<>> THEN TRUE
    ELSE IF Head(a) = Head(b) THEN StrLess(Tail(a), Tail(b))
    ELSE Ord(Head(a)) < Ord(Head(b))

Injections(S) == {f \in [1..Cardinality(S) -> S] : \A i, j \in DOMAIN f : f[i] = f[j] => i = j}

\***************************************************************************
\* parser.ParseFile: the function declarations of a file, in source order,
\* with 1-based first and last line.
\***************************************************************************
RECURSIVE IndexOf(_, _, _)
IndexOf(s, c, i) == IF i > Len(s) THEN 0 ELSE IF s[i] = c THEN i ELSE IndexOf(s, c, i + 1)

IsFuncLine(t) == HasPrefix(t, FuncKw)

FuncName(t) == SubSeq(t, Len(FuncKw) + 1, IndexOf(t, "(", 1) - 1)

RECURSIVE FindClose(_, _)
FindClose(lines, i) ==
    IF i > Len(lines) THEN 0
    ELSE IF TrimSpace(lines[i]) = Close THEN i
    ELSE FindClose(lines, i + 1)

\* The declarations of a line that holds only complete declarations, separated
\* by semicolons: each starts and ends on line i.
RECURSIVE SegDecls(_, _)
SegDecls(segs, i) ==
    IF segs = <<>> THEN <<>>
    ELSE (IF IsFuncLine(TrimSpace(Head(segs)))
          THEN << [name |-> FuncName(TrimSpace(Head(segs))), startLine |-> i, endLine |-> i] >>
          ELSE <<>>)
         \o SegDecls(Tail(segs), i)

RECURSIVE ParseFrom(_, _)
ParseFrom(lines, i) ==
    IF i > Len(lines) THEN <<>>
    ELSE LET t == TrimSpace(lines[i]) IN
         IF HasSuffix(t, << "{", "}" >>)
         THEN SegDecls(Split(t, ";"), i) \o ParseFrom(lines, i + 1)
         ELSE IF ~IsFuncLine(t) THEN ParseFrom(lines, i + 1)
         ELSE LET c == FindClose(lines, i + 1)
                  e == IF c = 0 THEN Len(lines) ELSE c
              IN << [name |-> FuncName(t), startLine |-> i, endLine |-> e] >>
                     \o ParseFrom(lines, e + 1)

ParseDecls(lines) == ParseFrom(lines, 1)

\***************************************************************************
\* The partition (ExtractTestFunctions and its helpers)
\***************************************************************************
TestPrefix == << "T", "e", "s", "t" >>

\* map[string][2]int: name -> <<start, end>>, the last declaration of a name wins.
buildTestFunctionPositions(decls) ==
    LET tests == {k \in DOMAIN decls : HasPrefix(decls[k].name, TestPrefix)}
        last(n) == CHOOSE k \in tests :
                      /\ decls[k].name = n
                      /\ \A m \in tests : decls[m].name = n => m <= k
    IN [n \in {decls[k].name : k \in tests} |->
            << decls[last(n)].startLine, decls[last(n)].endLine >>]

IsCommentOrBlankLine(t) ==
    HasPrefix(t, << "/", "/" >>) \/ HasPrefix(t, << "/", "*" >>) \/ t = <<>>

\* Mutant of findCommentStart: the walk stops at a blank line, it only takes the
\* comment lines directly above the declaration.
RECURSIVE findCommentStart_commentsOnly(_, _)
findCommentStart_commentsOnly(lines, commentStart) ==
    IF commentStart > 0
          /\ (HasPrefix(TrimSpace(At(lines, commentStart - 1)), << "/", "/" >>)
                 \/ HasPrefix(TrimSpace(At(lines, commentStart - 1)), << "/", "*" >>))
    THEN findCommentStart_commentsOnly(lines, commentStart - 1)
    ELSE commentStart

\* Mutant of findCommentStart: the line above is looked at as it stands, without
\* strings.TrimSpace.
RECURSIVE findCommentStart_noTrim(_, _)
findCommentStart_noTrim(lines, commentStart) ==
    IF commentStart > 0 /\ IsCommentOrBlankLine(At(lines, commentStart - 1))
    THEN findCommentStart_noTrim(lines, commentStart - 1)
    ELSE commentStart

RECURSIVE findCommentStart(_, _)
findCommentStart(lines, commentStart) ==
    IF commentStart > 0 /\ IsCommentOrBlankLine(TrimSpace(At(lines, commentStart - 1)))
    THEN findCommentStart(lines, commentStart - 1)
    ELSE commentStart

\* Mutant of findCommentEnd: the walk also takes comment lines, as the walk of
\* findCommentStart does.
RECURSIVE findCommentEnd_takesComments(_, _)
findCommentEnd_takesComments(lines, commentEnd) ==
    IF commentEnd < Len(lines) - 1 /\ IsCommentOrBlankLine(TrimSpace(At(lines, commentEnd + 1)))
    THEN findCommentEnd_takesComments(lines, commentEnd + 1)
    ELSE commentEnd

\* Mutant of findCommentEnd: no trailing empty line is taken.
findCommentEnd_stopsAtEnd(lines, commentEnd) == commentEnd

RECURSIVE findCommentEnd(_, _)
findCommentEnd(lines, commentEnd) ==
    IF commentEnd < Len(lines) - 1 /\ TrimSpace(At(lines, commentEnd + 1)) = <<>>
    THEN findCommentEnd(lines, commentEnd + 1)
    ELSE commentEnd

\***************************************************************************
\* The line classifiers
\***************************************************************************
importBlockStart == << "i", "m", "p", "o", "r", "t", " ", "(" >>

Contains(s, c) == \E i \in DOMAIN s : s[i] = c

\* Mutant of isCommentOrEmpty: the block comment marker is not looked for.
isCommentOrEmpty_lineCommentOnly(line) == line = <<>> \/ HasPrefix(line, << "/", "/" >>)

\* Mutant of isCommentOrEmpty: the line is trimmed before it is looked at.
isCommentOrEmpty_trims(line) ==
    \/ TrimSpace(line) = <<>>
    \/ HasPrefix(TrimSpace(line), << "/", "/" >>)
    \/ HasPrefix(TrimSpace(line), << "/", "*" >>)

isCommentOrEmpty(line) ==
    line = <<>> \/ HasPrefix(line, << "/", "/" >>) \/ HasPrefix(line, << "/", "*" >>)

isBoilerplateCode(line) ==
    \/ line = <<>>
    \/ HasPrefix(line, << "/", "/" >>) \/ HasPrefix(line, << "/", "*" >>)
    \/ HasPrefix(line, << "p", "a", "c", "k", "a", "g", "e", " " >>)
    \/ HasPrefix(line, << "i", "m", "p", "o", "r", "t", " " >>)
    \/ line = importBlockStart

\* The loop of isEndOfImportBlock from index innerIdx downwards.
RECURSIVE isEndOfImportBlockFrom(_, _)
isEndOfImportBlockFrom(lines, innerIdx) ==
    IF innerIdx < 0 THEN FALSE
    ELSE LET prevLine == TrimSpace(At(lines, innerIdx)) IN
         IF prevLine = <<>> \/ HasPrefix(prevLine, << "/", "/" >>)
         THEN isEndOfImportBlockFrom(lines, innerIdx - 1)
         ELSE IF Contains(prevLine, "\"") THEN isEndOfImportBlockFrom(lines, innerIdx - 1)
         ELSE IF prevLine = importBlockStart THEN TRUE
         ELSE FALSE

isEndOfImportBlock(lines, idx) == isEndOfImportBlockFrom(lines, idx - 1)

\* The loop of isInImportBlock from index innerIdx downwards.
RECURSIVE isInImportBlockFrom(_, _)
isInImportBlockFrom(lines, innerIdx) ==
    IF innerIdx < 0 THEN FALSE
    ELSE LET prevLine == TrimSpace(At(lines, innerIdx)) IN
         IF prevLine = <<>> \/ HasPrefix(prevLine, << "/", "/" >>)
         THEN isInImportBlockFrom(lines, innerIdx - 1)
         ELSE IF Contains(prevLine, "\"") THEN isInImportBlockFrom(lines, innerIdx - 1)
         ELSE IF prevLine = importBlockStart THEN TRUE
         ELSE FALSE

isInImportBlock(lines, idx) == isInImportBlockFrom(lines, idx - 1)

handleSpecialCases(lines, idx, line) ==
    IF line = << ")" >> THEN ~isEndOfImportBlock(lines, idx)
    ELSE IF Contains(line, "\"") THEN ~isInImportBlock(lines, idx)
    ELSE TRUE

hasActualCodeAt(lines, idx) ==
    LET line == TrimSpace(At(lines, idx))
    IN IF isBoilerplateCode(line) THEN FALSE ELSE handleSpecialCases(lines, idx, line)

isCommentBeforeTestFunction(lineIndex, lines, testFuncStartLine) ==
    LET testStartIdx == testFuncStartLine - 1
        trimmed == TrimSpace(At(lines, lineIndex))
    IN IF testFuncStartLine <= 0 THEN FALSE
       ELSE IF lineIndex >= testStartIdx THEN FALSE
       ELSE IF ~isCommentOrEmpty(trimmed) THEN FALSE
       ELSE IF trimmed = <<>> THEN FALSE
       ELSE IF lineIndex + 1 = testStartIdx THEN TRUE
       ELSE IF \E i \in (lineIndex + 1)..(testStartIdx - 1) : TrimSpace(At(lines, i)) # <<>>
       THEN FALSE
       ELSE ~\E idx \in 0..(lineIndex - 1) : hasActualCodeAt(lines, idx)

\* The pair the function returns: the TestFunction and the 0-based end line.
\* Mutant of extractTestFunctionWithComments: the copy loop runs while i < endLine
\* and leaves the declaration's last line out.
extractTestFunctionWithComments_dropsEndLine(lines, funcName, testFuncPos) ==
    LET startLine == testFuncPos[funcName][1] - 1
        endLine == testFuncPos[funcName][2] - 1
        commentStart == findCommentStart(lines, startLine)
    IN << [Name |-> funcName,
           Lines |-> [k \in 1..(endLine - commentStart) |-> At(lines, commentStart + k - 1)]],
          endLine >>

extractTestFunctionWithComments(lines, funcName, testFuncPos) ==
    LET startLine == testFuncPos[funcName][1] - 1
        endLine == testFuncPos[funcName][2] - 1
        commentStart == findCommentStart(lines, startLine)
    IN << [Name |-> funcName,
           Lines |-> [k \in 1..(endLine - commentStart + 1) |-> At(lines, commentStart + k - 1)]],
          endLine >>

\* The copy loop of extractTestFunctionWithComments reads lines[i] for an index
\* outside the slice: the Go runtime panics (index out of range).
IndexOutOfRange(lines, funcName, testFuncPos) ==
    LET startLine == testFuncPos[funcName][1] - 1
        endLine == testFuncPos[funcName][2] - 1
    IN \E i \in findCommentStart(lines, startLine)..endLine : i >= Len(lines)

Swap(s, i, j) == [s EXCEPT ![i] = s[j], ![j] = s[i]]

RECURSIVE SortInner(_, _, _)
SortInner(s, i, j) ==
    IF j > Len(s) THEN s
    ELSE SortInner(IF s[i].startLine > s[j].startLine THEN Swap(s, i, j) ELSE s, i, j + 1)

RECURSIVE SortOuter(_, _)
SortOuter(s, i) == IF i > Len(s) THEN s ELSE SortOuter(SortInner(s, i, i + 1), i + 1)

\* Mutant of createSortedFuncPositions: the slice is returned as the range loop
\* filled it, without the sort by start line.
createSortedFuncPositions_unsorted(testFuncPos, order) ==
    [k \in DOMAIN order |->
        [name |-> order[k],
         startLine |-> testFuncPos[order[k]][1] - 1,
         endLine |-> testFuncPos[order[k]][2] - 1]]

\* order: the order in which the range loop visits the keys of the map.
createSortedFuncPositions(testFuncPos, order) ==
    SortOuter([k \in DOMAIN order |->
                  [name |-> order[k],
                   startLine |-> testFuncPos[order[k]][1] - 1,
                   endLine |-> testFuncPos[order[k]][2] - 1]], 1)

InBounds(lines, i) == i >= 0 /\ i < Len(lines)

\* Mutant of markProcessedLines: only the lines of the declaration are marked,
\* the run above it and the blank lines below it are not.
markProcessedLines_declOnly(lines, sortedFuncs) ==
    UNION {IF InBounds(lines, sortedFuncs[k].startLine) /\ InBounds(lines, sortedFuncs[k].endLine)
           THEN sortedFuncs[k].startLine..sortedFuncs[k].endLine
           ELSE {} : k \in DOMAIN sortedFuncs}

\* The keys of processedLines (every stored value is true).
markProcessedLines(lines, sortedFuncs) ==
    UNION {IF InBounds(lines, sortedFuncs[k].startLine) /\ InBounds(lines, sortedFuncs[k].endLine)
           THEN {i \in findCommentStart(lines, sortedFuncs[k].startLine)
                        ..findCommentEnd(lines, sortedFuncs[k].endLine) : i < Len(lines)}
           ELSE {} : k \in DOMAIN sortedFuncs}

RECURSIVE extractAllTestFunctions(_, _, _)
extractAllTestFunctions(lines, sortedFuncs, testFuncPos) ==
    IF sortedFuncs = <<>> THEN <<>>
    ELSE (IF InBounds(lines, Head(sortedFuncs).startLine)
          THEN << extractTestFunctionWithComments(lines, Head(sortedFuncs).name, testFuncPos)[1] >>
          ELSE <<>>)
         \o extractAllTestFunctions(lines, Tail(sortedFuncs), testFuncPos)

RECURSIVE Unprocessed(_, _, _)
Unprocessed(lines, processedLines, i) ==
    IF i >= Len(lines) THEN <<>>
    ELSE (IF i \in processedLines THEN <<>> ELSE << At(lines, i) >>)
         \o Unprocessed(lines, processedLines, i + 1)

\* Mutant of collectNonTestLines: the test on processedLines is inverted.
collectNonTestLines_keepsProcessed(lines, processedLines) ==
    LET nonTestLines == Unprocessed(lines, (0..(Len(lines) - 1)) \ processedLines, 0)
    IN IF Len(nonTestLines) > 0 THEN Append(nonTestLines, <<>>) ELSE nonTestLines

\* Mutant of collectNonTestLines: no empty line is appended.
collectNonTestLines_noTrailingEmpty(lines, processedLines) ==
    Unprocessed(lines, processedLines, 0)

collectNonTestLines(lines, processedLines) ==
    LET nonTestLines == Unprocessed(lines, processedLines, 0)
    IN IF Len(nonTestLines) > 0 THEN Append(nonTestLines, <<>>) ELSE nonTestLines

separateTestAndNonTestContent(lines, testFuncPos, order) ==
    LET sortedFuncs == createSortedFuncPositions(testFuncPos, order)
    IN [testFuncs |-> extractAllTestFunctions(lines, sortedFuncs, testFuncPos),
        nonTestLines |-> collectNonTestLines(lines, markProcessedLines(lines, sortedFuncs))]

\***************************************************************************
\* The assembler (BuildOutputContent)
\***************************************************************************
\* The orders in which sort.Slice may leave the elements with indices S: each
\* starts with an element that no other element of S is less than.
RECURSIVE SortedOrders(_, _)
SortedOrders(fs, S) ==
    IF S = {} THEN {<<>>}
    ELSE UNION {{<< i >> \o r : r \in SortedOrders(fs, S \ {i})} :
                   i \in {j \in S : \A k \in S : ~StrLess(fs[k].Name, fs[j].Name)}}

\* The results sort.Slice may leave in the slice: every permutation of it that
\* is ordered by Name (the sort is not stable).
SortSlice(fs) == {[k \in DOMAIN fs |-> fs[p[k]]] : p \in SortedOrders(fs, DOMAIN fs)}

RECURSIVE StripTrailingEmpty(_)
StripTrailingEmpty(ls) ==
    IF Len(ls) > 0 /\ TrimSpace(ls[Len(ls)]) = <<>>
    THEN StripTrailingEmpty(SubSeq(ls, 1, Len(ls) - 1))
    ELSE ls

\* Mutant of StripLeadingEmpty: the leading empty lines of a block are kept.
StripLeadingEmpty_keepsAll(ls) == ls

RECURSIVE StripLeadingEmpty(_)
StripLeadingEmpty(ls) ==
    IF Len(ls) > 0 /\ TrimSpace(ls[1]) = <<>> THEN StripLeadingEmpty(Tail(ls)) ELSE ls

RECURSIVE AppendFuncs(_, _, _)
AppendFuncs(outputLines, sortedFuncs, i) ==
    IF i > Len(sortedFuncs) THEN outputLines
    ELSE AppendFuncs((IF i > 1 THEN Append(outputLines, <<>>) ELSE outputLines)
                         \o StripLeadingEmpty(sortedFuncs[i].Lines),
                     sortedFuncs, i + 1)

\* outputLines as it stands before the final strings.Join.
OutputLines(sortedFuncs, nonTestLines) ==
    AppendFuncs(IF Len(sortedFuncs) > 0 /\ Len(nonTestLines) > 0
                THEN Append(StripTrailingEmpty(nonTestLines), <<>>)
                ELSE nonTestLines,
                sortedFuncs, 1)

\* Mutant of EnsureFinalNewline: the newline is appended without looking at the text.
EnsureFinalNewline_always(output) == output \o <<NL>>

EnsureFinalNewline(output) ==
    IF ~HasSuffix(output, <<NL>>) THEN output \o <<NL>> ELSE output

\* sortedFuncs: testFuncs after the in-place sort.Slice.
BuildOutputContent(sortedFuncs, nonTestLines) ==
    EnsureFinalNewline(Join(OutputLines(sortedFuncs, nonTestLines), NL))

\***************************************************************************
\* Input files: Go files that parse, built from the line vocabulary
\***************************************************************************
Headers == << << Pkg >>, << Pkg, Imp >>, << PkgTest >> >>

\* What may follow the header: a blank line, a comment, a non-test function, or
\* a test function with an empty body or a blank line in its body, or a line
\* with two test functions.
TopItems ==
    << << Blank >>, << WsLine >>, << Comment >>, << Helper >>, << TwoTests >>,
       << Open(TestB), Close >>, << Open(Testa), Close >>,
       << Open(TestB), Blank, Close >>, << Open(Testa), Blank, Close >> >>

RECURSIVE PlanLen(_)
PlanLen(p) == IF p = <<>> THEN 0 ELSE Len(TopItems[Head(p)]) + PlanLen(Tail(p))

RECURSIVE Flatten(_)
Flatten(p) == IF p = <<>> THEN <<>> ELSE TopItems[Head(p)] \o Flatten(Tail(p))

\***************************************************************************
\* The command: arguments, errors and the file system
\***************************************************************************
\* Most positional arguments of a command line.
MaxArgs == 3

\* MissingDirPath lies in a directory that does not exist: the file cannot be
\* created.
MissingDirPath == "nodir/c.go"

Paths == {"a.go", "b.go", MissingDirPath}

NoFile == [exists |-> FALSE, data |-> <<>>]

File(text) == [exists |-> TRUE, data |-> text]

NoErr == ""
ErrUsage == "missing or too many arguments"
ErrRead == "failed to read input file"
ErrParse == "failed to parse Go file"
ErrWrite == "failed to write output file"

NotExited == -1

\* The texts a file of the command's file system may hold: two test functions
\* out of order, a file without test functions, and two texts that are not Go
\* (a function without package clause and without end, and the empty text).
UnsortedText == Join(<< Pkg, Open(Testa), Close, Open(TestB), Close >>, NL)

NoTestsText == Join(<< Pkg, Helper >>, NL) \o << NL >>

NotGoText == Open(Testa)

FileTexts == {UnsortedText, NoTestsText, NotGoText, <<>>}

\* parser.ParseFile returns no error: the first line that is neither blank nor
\* a comment is the package clause, and every function that is opened is closed.
RECURSIVE FirstCodeLine(_, _)
FirstCodeLine(lines, i) ==
    IF i > Len(lines) THEN 0
    ELSE IF IsCommentOrBlankLine(TrimSpace(lines[i])) THEN FirstCodeLine(lines, i + 1)
    ELSE i

\* Mutant of ValidGo: the parser accepts every text.
ValidGo_always(text) == TRUE

ValidGo(text) ==
    LET ls == Split(text, NL)
        f == FirstCodeLine(ls, 1)
    IN /\ f > 0
       /\ HasPrefix(TrimSpace(ls[f]), << "p", "a", "c", "k", "a", "g", "e", " " >>)
       /\ \A i \in DOMAIN ls :
             LET t == TrimSpace(ls[i])
             IN (IsFuncLine(t) /\ ~HasSuffix(t, << "{", "}" >>)) => FindClose(ls, i + 1) # 0

\* Mutant of BadArgCount: only the empty command line is rejected.
BadArgCount_onlyZero(n) == n = 0

\* main: the argument count it rejects.
BadArgCount(n) == n = 0 \/ n > 2

\***************************************************************************
\* State
\***************************************************************************
VARIABLES
    content,       \* the text of the input file
    pc,            \* position in Exec: "start", "parsed", "extracted", "built"
    lines,         \* ParseGoFile: the lines of content
    decls,         \* ParseGoFile: the function declarations of the parsed file
    testFuncs,     \* the blocks ([]TestFunction)
    nonTestLines,  \* the remainder
    output,        \* the text BuildOutputContent returned
    run,           \* 1 for the run on the original file, 2 for the run on its output
    firstInput,    \* the input of run 1, kept while run 2 works
    firstOutput,   \* the output of run 1, kept while run 2 works on it
    args,          \* main: the positional arguments (flag.Args())
    pathInput,     \* main: the input path given to Exec
    pathOutput,    \* main: the output path given to Exec
    files,         \* the file system: path -> file
    filesBefore,   \* the file system as it was when the command started
    opened,        \* the paths the command has opened, for reading or for writing
    err,           \* the error Exec or main holds, NoErr for nil
    exitCode,      \* the exit status of the process, NotExited while it runs
    callLines,     \* a call of a line classifier: the lines it is given
    callIdx,       \* a call of a line classifier: the 0-based index of the line
    callStart,     \* a call of a line classifier: the 1-based start line it is given
    callFn,        \* the classifier that was called, "" before the call
    callResult     \* what the called function returned

pipeVars ==
    << content, pc, lines, decls, testFuncs, nonTestLines, output, run, firstInput, firstOutput >>

cmdVars == << args, pathInput, pathOutput, files, filesBefore, opened, exitCode >>

callVars == << callLines, callIdx, callStart, callFn, callResult >>

vars == << pipeVars, cmdVars, err, callVars >>

\* The state of the classifier call's variables when no classifier is called.
NoCall ==
    /\ callLines = <<>>
    /\ callIdx = 0
    /\ callStart = 0
    /\ callFn = ""
    /\ callResult = FALSE

\* The state of the command's variables when the pipeline is run without it.
NoCommand ==
    /\ args = <<>>
    /\ pathInput = ""
    /\ pathOutput = ""
    /\ files = [p \in Paths |-> NoFile]
    /\ filesBefore = [p \in Paths |-> NoFile]
    /\ opened = {}
    /\ err = NoErr
    /\ exitCode = NotExited

\* The input file is any file of at most max lines.
InitFile(max) ==
    /\ \E h \in DOMAIN Headers : \E k \in 0..(max - Len(Headers[h])) :
          \E p \in [1..k -> DOMAIN TopItems] :
             /\ Len(Headers[h]) + PlanLen(p) <= max
             /\ content = Join(Headers[h] \o Flatten(p), NL)
    /\ pc = "start"
    /\ lines = <<>>
    /\ decls = <<>>
    /\ testFuncs = <<>>
    /\ nonTestLines = <<>>
    /\ output = <<>>
    /\ run = 1
    /\ firstInput = <<>>
    /\ firstOutput = <<>>
    /\ NoCommand
    /\ NoCall

Init == InitFile(MaxLines)

\* ParseGoFile from the parser call on: content holds what os.ReadFile returned.
ParseGoFile ==
    /\ pc = "start"
    /\ IF ValidGo(content)
       THEN /\ lines' = Split(content, NL)
            /\ decls' = ParseDecls(Split(content, NL))
            /\ err' = NoErr
            /\ pc' = "parsed"
       ELSE /\ lines' = <<>>
            /\ decls' = <<>>
            /\ err' = ErrParse
            /\ pc' = "returned"
    /\ UNCHANGED << content, testFuncs, nonTestLines, output, run, firstInput, firstOutput >>
    /\ UNCHANGED << cmdVars, callVars >>

\* extractAllTestFunctions calls extractTestFunctionWithComments for every entry
\* whose start line is inside the file; when one of these calls reads outside
\* the lines, the goroutine panics and nothing is returned.
ExtractTestFunctions ==
    /\ pc = "parsed"
    /\ LET testFuncPos == buildTestFunctionPositions(decls) IN
       IF \E n \in DOMAIN testFuncPos :
             InBounds(lines, testFuncPos[n][1] - 1) /\ IndexOutOfRange(lines, n, testFuncPos)
       THEN /\ pc' = "panicked"
            /\ UNCHANGED << testFuncs, nonTestLines >>
       ELSE /\ \E order \in Injections(DOMAIN testFuncPos) :
                  LET r == separateTestAndNonTestContent(lines, testFuncPos, order) IN
                  /\ testFuncs' = r.testFuncs
                  /\ nonTestLines' = r.nonTestLines
            /\ pc' = "extracted"
    /\ UNCHANGED << content, lines, decls, output, run, firstInput, firstOutput >>
    /\ UNCHANGED << cmdVars, err, callVars >>

BuildOutput ==
    /\ pc = "extracted"
    /\ \E sortedFuncs \in SortSlice(testFuncs) :
          /\ testFuncs' = sortedFuncs
          /\ output' = BuildOutputContent(sortedFuncs, nonTestLines)
    /\ pc' = "built"
    /\ UNCHANGED << content, lines, decls, nonTestLines, run, firstInput, firstOutput >>
    /\ UNCHANGED << cmdVars, err, callVars >>

\* The output of the first run is given to a second run as its input file.
Rerun ==
    /\ pc = "built"
    /\ run = 1
    /\ content' = output
    /\ firstInput' = content
    /\ firstOutput' = output
    /\ run' = 2
    /\ pc' = "start"
    /\ lines' = <<>>
    /\ decls' = <<>>
    /\ testFuncs' = <<>>
    /\ nonTestLines' = <<>>
    /\ output' = <<>>
    /\ UNCHANGED << cmdVars, err, callVars >>

Next == ParseGoFile \/ ExtractTestFunctions \/ BuildOutput

Spec == Init /\ [][Next]_vars

\* The pipeline run twice: on the input file and then on its own output.
NextRerun == ParseGoFile \/ ExtractTestFunctions \/ BuildOutput \/ Rerun

\* Longest input file of the specification that runs the pipeline twice.
MaxRerunLines == 5

InitRerun == InitFile(MaxRerunLines)

SpecRerun == InitRerun /\ [][NextRerun]_vars

\***************************************************************************
\* BuildOutputContent called on its own, as a caller of the package may call it:
\* any blocks and any remainder.  The lines of a call are cut from one line
\* sequence: the remainder first, then one block per cut.
\***************************************************************************
\* Largest call: number of blocks plus number of lines in the remainder and blocks.
MaxBuildSize == 6

BuildLines == {Blank, WsLine, Close}

InitBuild ==
    /\ \E n \in 0..MaxBuildSize : \E m \in 0..(MaxBuildSize - n) :
          \E flat \in [1..m -> BuildLines] : \E names \in [1..n -> TestNames] :
             \E cuts \in [1..n -> 0..m] :
                /\ \A k \in 1..(n - 1) : cuts[k] <= cuts[k + 1]
                /\ nonTestLines = (IF n = 0 THEN flat ELSE SubSeq(flat, 1, cuts[1]))
                /\ testFuncs =
                      [k \in 1..n |->
                          [Name |-> names[k],
                           Lines |-> SubSeq(flat, cuts[k] + 1, IF k = n THEN m ELSE cuts[k + 1])]]
    /\ pc = "extracted"
    /\ content = <<>>
    /\ lines = <<>>
    /\ decls = <<>>
    /\ output = <<>>
    /\ run = 1
    /\ firstInput = <<>>
    /\ firstOutput = <<>>
    /\ NoCommand
    /\ NoCall

NextBuild == BuildOutput

SpecBuild == InitBuild /\ [][NextBuild]_vars

\***************************************************************************
\* The partition and the assembler called on any lines and any declarations, as
\* ExtractTestFunctions is called with the lines and the syntax tree a caller
\* holds: the declarations have different names, start inside the lines and
\* end at or below their start line, at most one line below the last line
\* (ParseGoFile reads the file once for the lines and the parser reads it again
\* for the syntax tree, so the two need not agree).
\***************************************************************************
\* Most lines of a call of the partition.
MaxPartLines == 5

PartLineKinds == {Blank, Comment, Code, Close}

InitPartition ==
    /\ \E n \in 1..MaxPartLines : lines \in [1..n -> PartLineKinds]
    /\ \E names \in {<<>>, << Testa >>, << TestB >>, << Testa, TestB >>} :
          \E pos \in [DOMAIN names -> (1..MaxPartLines) \X (1..(MaxPartLines + 1))] :
             /\ \A k \in DOMAIN names :
                   pos[k][1] <= Len(lines) /\ pos[k][1] <= pos[k][2] /\ pos[k][2] <= Len(lines) + 1
             /\ decls = [k \in DOMAIN names |->
                            [name |-> names[k], startLine |-> pos[k][1], endLine |-> pos[k][2]]]
    /\ pc = "parsed"
    /\ content = <<>>
    /\ testFuncs = <<>>
    /\ nonTestLines = <<>>
    /\ output = <<>>
    /\ run = 1
    /\ firstInput = <<>>
    /\ firstOutput = <<>>
    /\ NoCommand
    /\ NoCall

NextPartition == ExtractTestFunctions \/ BuildOutput

SpecPartition == InitPartition /\ [][NextPartition]_vars

\***************************************************************************
\* The command: main calls Exec on files of the file system.  No flag is
\* defined and the command lines of the model hold no flag, so flag.Args() is
\* the command line.
\***************************************************************************
InitCmd ==
    /\ \E n \in 0..MaxArgs : args \in [1..n -> Paths]
    /\ \E fs \in [Paths -> {NoFile} \cup {File(t) : t \in FileTexts}] :
          /\ fs[MissingDirPath] = NoFile
          /\ files = fs
          /\ filesBefore = fs
    /\ opened = {}
    /\ pathInput = ""
    /\ pathOutput = ""
    /\ err = NoErr
    /\ exitCode = NotExited
    /\ NoCall
    /\ pc = "main"
    /\ content = <<>>
    /\ lines = <<>>
    /\ decls = <<>>
    /\ testFuncs = <<>>
    /\ nonTestLines = <<>>
    /\ output = <<>>
    /\ run = 1
    /\ firstInput = <<>>
    /\ firstOutput = <<>>

\* main up to the call of Exec: exitOnErr ends the process with status 1.
Main ==
    /\ pc = "main"
    /\ IF BadArgCount(Len(args))
       THEN /\ err' = ErrUsage
            /\ exitCode' = 1
            /\ pc' = "exited"
            /\ UNCHANGED << pathInput, pathOutput >>
       ELSE /\ pathInput' = args[1]
            /\ pathOutput' = (IF Len(args) > 1 THEN args[2] ELSE args[1])
            /\ pc' = "exec"
            /\ UNCHANGED << err, exitCode >>
    /\ UNCHANGED << content, lines, decls, testFuncs, nonTestLines, output, run,
                    firstInput, firstOutput, args, files, filesBefore, opened >>
    /\ UNCHANGED callVars

\* ParseGoFile up to the parser call: os.ReadFile.
ReadInput ==
    /\ pc = "exec"
    /\ opened' = opened \cup {pathInput}
    /\ IF files[pathInput].exists
       THEN /\ content' = files[pathInput].data
            /\ err' = NoErr
            /\ pc' = "start"
       ELSE /\ content' = <<>>
            /\ err' = ErrRead
            /\ pc' = "returned"
    /\ UNCHANGED << lines, decls, testFuncs, nonTestLines, output, run, firstInput,
                    firstOutput, args, pathInput, pathOutput, files, filesBefore, exitCode >>
    /\ UNCHANGED callVars

\* Exec from os.WriteFile on.  os.WriteFile opens the file with O_CREATE and
\* O_TRUNC and then writes: it succeeds, or the open fails and the file is as it
\* was, or the write fails and the file holds a part of the text.
WriteOutput ==
    /\ pc = "built"
    /\ opened' = opened \cup {pathOutput}
    /\ \/ /\ pathOutput # MissingDirPath
          /\ files' = [files EXCEPT ![pathOutput] = File(output)]
          /\ err' = NoErr
       \/ /\ files' = files
          /\ err' = ErrWrite
       \/ /\ pathOutput # MissingDirPath
          /\ \E k \in 0..(Len(output) - 1) :
                files' = [files EXCEPT ![pathOutput] = File(SubSeq(output, 1, k))]
          /\ err' = ErrWrite
    /\ pc' = "returned"
    /\ UNCHANGED << content, lines, decls, testFuncs, nonTestLines, output, run, firstInput,
                    firstOutput, args, pathInput, pathOutput, filesBefore, exitCode >>
    /\ UNCHANGED callVars

\* main after Exec returned: exitOnErr(err), or the end of main.
Exit ==
    /\ pc = "returned"
    /\ exitCode' = (IF err # NoErr THEN 1 ELSE 0)
    /\ pc' = "exited"
    /\ UNCHANGED << content, lines, decls, testFuncs, nonTestLines, output, run, firstInput,
                    firstOutput, args, pathInput, pathOutput, files, filesBefore, opened, err >>
    /\ UNCHANGED callVars

NextCmd ==
    Main \/ ReadInput \/ ParseGoFile \/ ExtractTestFunctions \/ BuildOutput \/ WriteOutput \/ Exit

SpecCmd == InitCmd /\ [][NextCmd]_vars

\***************************************************************************
\* The line classifiers called on their own: any lines of the vocabulary below
\* and any index into them.  isEndOfImportBlock and isInImportBlock are called
\* as handleSpecialCases calls them: on a ")" line, and on a line with a double
\* quote that is neither boilerplate nor ")".
\***************************************************************************
\* Most lines of a classifier call.
MaxCallLines == 4

CallLineKinds ==
    {Blank, WsLine, Comment, BlockComment, IndentedComment, importBlockStart, CloseParen,
     ImportPath, Pkg, Code, StrLit}

InitCall ==
    /\ \E n \in 1..MaxCallLines : callLines \in [1..n -> CallLineKinds]
    /\ callIdx \in 0..(MaxCallLines - 1)
    /\ callIdx < Len(callLines)
    /\ callStart = 0
    /\ callFn = ""
    /\ callResult = FALSE
    /\ pc = "call"
    /\ content = <<>>
    /\ lines = <<>>
    /\ decls = <<>>
    /\ testFuncs = <<>>
    /\ nonTestLines = <<>>
    /\ output = <<>>
    /\ run = 1
    /\ firstInput = <<>>
    /\ firstOutput = <<>>
    /\ NoCommand

CallIsCommentOrEmpty ==
    /\ pc = "call"
    /\ callFn' = "isCommentOrEmpty"
    /\ callResult' = isCommentOrEmpty(At(callLines, callIdx))
    /\ pc' = "called"
    /\ UNCHANGED << content, lines, decls, testFuncs, nonTestLines, output, run, firstInput,
                    firstOutput, cmdVars, err, callLines, callIdx, callStart >>

CallIsEndOfImportBlock ==
    /\ pc = "call"
    /\ TrimSpace(At(callLines, callIdx)) = CloseParen
    /\ callFn' = "isEndOfImportBlock"
    /\ callResult' = isEndOfImportBlock(callLines, callIdx)
    /\ pc' = "called"
    /\ UNCHANGED << content, lines, decls, testFuncs, nonTestLines, output, run, firstInput,
                    firstOutput, cmdVars, err, callLines, callIdx, callStart >>

CallIsInImportBlock ==
    /\ pc = "call"
    /\ ~isBoilerplateCode(TrimSpace(At(callLines, callIdx)))
    /\ TrimSpace(At(callLines, callIdx)) # CloseParen
    /\ Contains(TrimSpace(At(callLines, callIdx)), "\"")
    /\ callFn' = "isInImportBlock"
    /\ callResult' = isInImportBlock(callLines, callIdx)
    /\ pc' = "called"
    /\ UNCHANGED << content, lines, decls, testFuncs, nonTestLines, output, run, firstInput,
                    firstOutput, cmdVars, err, callLines, callIdx, callStart >>

\* findCommentStart called with the index of a line of the file as the
\* declaration's start line.
CallFindCommentStart ==
    /\ pc = "call"
    /\ callFn' = "findCommentStart"
    /\ callResult' = findCommentStart(callLines, callIdx)
    /\ pc' = "called"
    /\ UNCHANGED << content, lines, decls, testFuncs, nonTestLines, output, run, firstInput,
                    firstOutput, cmdVars, err, callLines, callIdx, callStart >>

NextCall ==
    CallIsCommentOrEmpty \/ CallIsEndOfImportBlock \/ CallIsInImportBlock \/ CallFindCommentStart

SpecCall == InitCall /\ [][NextCall]_vars

\***************************************************************************
\* isCommentBeforeTestFunction called on its own: any lines of the vocabulary
\* below, any index into them and any start line from 0 to the line below the
\* last of them (the function does not read the line of the declaration).
\***************************************************************************
\* Most lines of a call of isCommentBeforeTestFunction.
MaxCommentLines == 5

CommentLineKinds ==
    {Blank, IndentedComment, BlockComment, importBlockStart, CloseParen, ImportPath, Pkg, Imp, Code}

InitComment ==
    /\ \E n \in 1..MaxCommentLines : callLines \in [1..n -> CommentLineKinds]
    /\ callIdx \in 0..(MaxCommentLines - 1)
    /\ callIdx < Len(callLines)
    /\ callStart \in 0..(MaxCommentLines + 1)
    /\ callStart <= Len(callLines) + 1
    /\ callFn = ""
    /\ callResult = FALSE
    /\ pc = "call"
    /\ content = <<>>
    /\ lines = <<>>
    /\ decls = <<>>
    /\ testFuncs = <<>>
    /\ nonTestLines = <<>>
    /\ output = <<>>
    /\ run = 1
    /\ firstInput = <<>>
    /\ firstOutput = <<>>
    /\ NoCommand

CallIsCommentBeforeTestFunction ==
    /\ pc = "call"
    /\ callFn' = "isCommentBeforeTestFunction"
    /\ callResult' = isCommentBeforeTestFunction(callIdx, callLines, callStart)
    /\ pc' = "called"
    /\ UNCHANGED << content, lines, decls, testFuncs, nonTestLines, output, run, firstInput,
                    firstOutput, cmdVars, err, callLines, callIdx, callStart >>

NextComment == CallIsCommentBeforeTestFunction

SpecComment == InitComment /\ [][NextComment]_vars

\***************************************************************************
\* Vocabulary of the properties
\***************************************************************************
Built1 == pc = "built" /\ run = 1

Extracted1 == pc = "extracted" /\ run = 1

IsBlankLine(l) == TrimSpace(l) = <<>>

IsCommentLine(l) ==
    HasPrefix(TrimSpace(l), << "/", "/" >>) \/ HasPrefix(TrimSpace(l), << "/", "*" >>)

IsPrefixOf(a, b) == Len(a) <= Len(b) /\ SubSeq(b, 1, Len(a)) = a

\* a can be obtained from b by deleting elements.
RECURSIVE IsSubseqOf(_, _)
IsSubseqOf(a, b) ==
    IF a = <<>> THEN TRUE
    ELSE IF b = <<>> THEN FALSE
    ELSE IF Head(a) = Head(b) THEN IsSubseqOf(Tail(a), Tail(b))
    ELSE IsSubseqOf(a, Tail(b))

RECURSIVE SelectNonBlank(_)
SelectNonBlank(ls) ==
    IF ls = <<>> THEN <<>>
    ELSE (IF IsBlankLine(Head(ls)) THEN <<>> ELSE << Head(ls) >>) \o SelectNonBlank(Tail(ls))

RECURSIVE BagOfSeq(_)
BagOfSeq(s) == IF s = <<>> THEN EmptyBag ELSE SetToBag({Head(s)}) (+) BagOfSeq(Tail(s))

BlankOrCommentLine(l) == IsBlankLine(l) \/ IsCommentLine(l)

\* The Test-prefixed declarations of a file, in source order.
TestDecls(ls) == SelectSeq(ParseDecls(ls), LAMBDA d : HasPrefix(d.name, TestPrefix))

\* The test function bodies of a file: name and the text from the declaration's
\* first line through its last line.
TestBodies(ls) ==
    LET ds == TestDecls(ls)
    IN BagOfSeq([k \in DOMAIN ds |-> << ds[k].name, SubSeq(ls, ds[k].startLine, ds[k].endLine) >>])

\* The lines at the 0-based indices of set I, in file order.
RECURSIVE LinesAt(_, _, _)
LinesAt(ls, I, i) ==
    IF i >= Len(ls) THEN <<>>
    ELSE (IF i \in I THEN << At(ls, i) >> ELSE <<>>) \o LinesAt(ls, I, i + 1)

\* The position map of the parsed file and, for a name in it, the 0-based
\* declaration lines and the boundaries of the blank/comment run above the
\* declaration and of the blank run below it.
Pos == buildTestFunctionPositions(decls)

StartOf(n) == Pos[n][1] - 1

EndOf(n) == Pos[n][2] - 1

LeadingBoundary(n) ==
    LET s == StartOf(n)
    IN CHOOSE r \in 0..s :
          /\ \A i \in r..(s - 1) : IsBlankLine(At(lines, i)) \/ IsCommentLine(At(lines, i))
          /\ r > 0 => ~(IsBlankLine(At(lines, r - 1)) \/ IsCommentLine(At(lines, r - 1)))

TrailingBoundary(n) ==
    LET e == EndOf(n)
    IN CHOOSE r \in e..(Len(lines) - 1) :
          /\ \A i \in (e + 1)..r : IsBlankLine(At(lines, i))
          /\ r < Len(lines) - 1 => ~IsBlankLine(At(lines, r + 1))

ClaimedRange(n) == LeadingBoundary(n)..TrailingBoundary(n)

Claimed == UNION {ClaimedRange(n) : n \in DOMAIN Pos}

Unclaimed == (0..(Len(lines) - 1)) \ Claimed

\* The block of name n among the blocks of the partition.
BlockOf(n) == testFuncs[CHOOSE k \in DOMAIN testFuncs : testFuncs[k].Name = n]

\***************************************************************************
\* Properties
\***************************************************************************

\* C1 (as claimed): in the output of the whole transformation the Test-prefixed
\* functions appear in ascending byte-wise name order, A.name <= B.name for every
\* adjacent pair, for any input, also when two declarations share a name.
C1_OutputOrdered ==
    Built1 =>
        LET ds == TestDecls(Split(output, NL))
        IN \A k \in 1..(Len(ds) - 1) : ~StrLess(ds[k + 1].name, ds[k].name)

\* C2: every test function (name and the lines from its first through its last
\* declaration line) is in the output as often as in the input, unchanged and
\* contiguous: none is duplicated, lost or truncated.
C2_Conservation == Built1 => TestBodies(Split(output, NL)) = TestBodies(lines)

\* C2 witness: two test functions were emitted in the opposite of their source order.
C2_Witness ==
    /\ Built1
    /\ Len(testFuncs) = 2
    /\ StartOf(testFuncs[1].Name) > StartOf(testFuncs[2].Name)

\* C3 (as claimed): every input line outside every test function declaration
\* appears in the output, and these lines keep their relative order.
C3_AllNonTestLinesKept ==
    Built1 =>
        LET ds == TestDecls(lines)
            inDecl == {i \in 0..(Len(lines) - 1) :
                          \E k \in DOMAIN ds : ds[k].startLine - 1 <= i /\ i <= ds[k].endLine - 1}
        IN IsSubseqOf(LinesAt(lines, (0..(Len(lines) - 1)) \ inDecl, 0), Split(output, NL))

\* C3 (amended): every non-blank input line that the partition leaves unclaimed
\* appears in the output, these lines keep their relative order and come before
\* every block.
C3_UnclaimedNonBlankKept ==
    Built1 =>
        IsPrefixOf(SelectNonBlank(LinesAt(lines, Unclaimed, 0)), SelectNonBlank(Split(output, NL)))

\* C3 witness: an unclaimed non-test function stands below a test function in the input.
C3_Witness ==
    /\ Built1
    /\ \E n \in DOMAIN Pos : \E i \in Unclaimed : i > EndOf(n) /\ At(lines, i) = Helper

\* C4 (as claimed): for an input whose test functions are already sorted, the
\* second run returns the text the first run returned.
C4_Idempotent ==
    (pc = "built" /\ run = 2) =>
        LET ds == TestDecls(Split(firstInput, NL))
        IN (\A k \in 1..(Len(ds) - 1) : ~StrLess(ds[k + 1].name, ds[k].name))
               => output = firstOutput

\* C5 (as claimed): with no test function the output is the input, with one
\* newline appended only when the input does not end with one.
C5_NoTestsUnchanged ==
    (Built1 /\ DOMAIN Pos = {}) =>
        output = (IF HasSuffix(content, <<NL>>) THEN content ELSE content \o <<NL>>)

IsBoilerplateAbove(l) ==
    \/ IsBlankLine(l)
    \/ HasPrefix(TrimSpace(l), << "p", "a", "c", "k", "a", "g", "e", " " >>)
    \/ HasPrefix(TrimSpace(l), << "i", "m", "p", "o", "r", "t", " " >>)

\* Comment line c stands above the declaration of n with only blank lines, and at
\* least one, between them.
OrphanCommentOf(c, n) ==
    /\ IsCommentLine(At(lines, c))
    /\ c + 1 < StartOf(n)
    /\ \A i \in (c + 1)..(StartOf(n) - 1) : IsBlankLine(At(lines, i))

OnlyBoilerplateAbove(c) == \A i \in 0..(c - 1) : IsBoilerplateAbove(At(lines, i))

NonTestFuncAbove(c) ==
    \E k \in DOMAIN decls : ~HasPrefix(decls[k].name, TestPrefix) /\ decls[k].endLine - 1 < c

\* The block of n holds the lines from index c (or above) through the end line.
BlockReaches(n, c) ==
    LET b == BlockOf(n).Lines
    IN /\ Len(b) >= EndOf(n) - c + 1
       /\ b = SubSeq(lines, EndOf(n) + 1 - Len(b) + 1, EndOf(n) + 1)

\* The remainder is drawn only from the lines above the block of n and the lines
\* below the end line of n.
RemainderAvoids(n) ==
    LET first == EndOf(n) + 1 - Len(BlockOf(n).Lines)
    IN IsSubseqOf(nonTestLines,
                  SubSeq(lines, 1, first) \o SubSeq(lines, EndOf(n) + 2, Len(lines)) \o << Blank >>)

\* C6: a comment with only package, import and blank lines above it, separated
\* from the following test function by blank lines only, is in that function's
\* block and not in the remainder.
C6_OrphanCommentAttached ==
    Extracted1 =>
        \A n \in DOMAIN Pos : \A c \in 0..(Len(lines) - 1) :
            (OrphanCommentOf(c, n) /\ OnlyBoilerplateAbove(c))
                => (BlockReaches(n, c) /\ RemainderAvoids(n))

\* C6 witness: such a comment exists below an import line.
C6_Witness ==
    /\ Extracted1
    /\ \E n \in DOMAIN Pos : \E c \in 2..(Len(lines) - 1) :
          OrphanCommentOf(c, n) /\ OnlyBoilerplateAbove(c) /\ At(lines, 1) = Imp

\* C7 (as claimed): a comment below a non-test function, separated from the
\* following test function by blank lines, stays in the remainder: the block
\* of the test function starts below it.
C7_CommentAfterCodeStays ==
    Extracted1 =>
        \A n \in DOMAIN Pos : \A c \in 0..(Len(lines) - 1) :
            (OrphanCommentOf(c, n) /\ NonTestFuncAbove(c))
                => Len(BlockOf(n).Lines) <= EndOf(n) - c

\* The lines from the first non-blank line on, and up to the last non-blank line.
FromFirstNonBlank(ls) ==
    IF \A k \in DOMAIN ls : IsBlankLine(ls[k]) THEN <<>>
    ELSE SubSeq(ls, CHOOSE k \in DOMAIN ls :
                        ~IsBlankLine(ls[k]) /\ \A m \in 1..(k - 1) : IsBlankLine(ls[m]), Len(ls))

UpToLastNonBlank(ls) ==
    IF \A k \in DOMAIN ls : IsBlankLine(ls[k]) THEN <<>>
    ELSE SubSeq(ls, 1, CHOOSE k \in DOMAIN ls :
                           ~IsBlankLine(ls[k]) /\ \A m \in (k + 1)..Len(ls) : IsBlankLine(ls[m]))

RECURSIVE SeparatedBlocks(_, _)
SeparatedBlocks(fs, k) ==
    IF k > Len(fs) THEN <<>>
    ELSE << Blank >> \o FromFirstNonBlank(fs[k].Lines) \o SeparatedBlocks(fs, k + 1)

\* C8: the output is the remainder up to its last non-blank line, then for each
\* block one blank line and the block from its first non-blank line on; a block
\* ends with a non-blank line, so exactly one blank line stands between the
\* remainder and the first block and between two consecutive blocks.
C8_OneBlankLineBetween ==
    (Built1 /\ Len(testFuncs) > 0) =>
        /\ nonTestLines # <<>> => UpToLastNonBlank(nonTestLines) # <<>>
        /\ \A k \in DOMAIN testFuncs : ~IsBlankLine(testFuncs[k].Lines[Len(testFuncs[k].Lines)])
        /\ Split(output, NL)
              = (IF nonTestLines # <<>>
                 THEN UpToLastNonBlank(nonTestLines) \o SeparatedBlocks(testFuncs, 1)
                 ELSE Tail(SeparatedBlocks(testFuncs, 1)))
                \o << Blank >>

\* C8 witness: two blocks, and a block that came with leading blank lines.
C8_Witness ==
    /\ Built1
    /\ Len(testFuncs) = 2
    /\ \E k \in DOMAIN testFuncs :
          Len(testFuncs[k].Lines) > 2
              /\ IsBlankLine(testFuncs[k].Lines[1]) /\ IsBlankLine(testFuncs[k].Lines[2])

C11_BlockIsLeadingThroughEnd ==
    Extracted1 =>
        /\ Len(testFuncs) = Cardinality(DOMAIN Pos)
        /\ \A n \in DOMAIN Pos :
              LET r == extractTestFunctionWithComments(lines, n, Pos)
              IN /\ r[1].Name = n
                 /\ r[1].Lines = SubSeq(lines, LeadingBoundary(n) + 1, EndOf(n) + 1)
                 /\ \E k \in DOMAIN decls : decls[k].name = n /\ decls[k].endLine = r[2] + 1
                 /\ Cardinality({k \in DOMAIN testFuncs : testFuncs[k] = r[1]}) = 1

\* C11 witness: a block that starts with a comment and a blank line above a
\* declaration of three lines.
C11_Witness ==
    /\ Extracted1
    /\ \E n \in DOMAIN Pos :
          /\ LeadingBoundary(n) = StartOf(n) - 2
          /\ EndOf(n) = StartOf(n) + 2
          /\ IsCommentLine(At(lines, LeadingBoundary(n)))
          /\ Len(BlockOf(n).Lines) = 5

\* C12: the remainder is the sequence of the unclaimed input lines in their
\* original order, followed by one appended empty line if and only if at least
\* one line is unclaimed: its length is the number of unclaimed lines plus one
\* when there are unclaimed lines and 0 when there are none.
C12_RemainderIsUnclaimedPlusOne ==
    Extracted1 =>
        LET u == LinesAt(lines, Unclaimed, 0)
        IN /\ Len(u) = Cardinality(Unclaimed)
           /\ Unclaimed # {} => nonTestLines = u \o << <<>> >>
                                 /\ Len(nonTestLines) = Cardinality(Unclaimed) + 1
           /\ Unclaimed = {} => nonTestLines = <<>>

\* C12 witness: unclaimed lines above and below a test function, the last of
\* them a blank line.
C12_Witness ==
    /\ Extracted1
    /\ \E n \in DOMAIN Pos : \E i, j \in Unclaimed :
          i < StartOf(n) /\ EndOf(n) < j /\ j = Len(lines) - 1 /\ IsBlankLine(At(lines, j))

\* C12 witness of the empty case: every line of the file is claimed.
C12_WitnessEmpty == Extracted1 /\ Unclaimed = {} /\ Len(lines) > 1

\* The blocks fs are in ascending order of the start line of their declaration.
AscendingByStart(fs) ==
    \A k \in 1..(Len(fs) - 1) : StartOf(fs[k].Name) <= StartOf(fs[k + 1].Name)

\* C13: the partition returns the blocks in ascending order of declaration start
\* line, whatever the order in which the position map is iterated and whatever
\* the names are: a block whose declaration starts on an earlier line comes
\* first.
C13_BlocksInSourceOrder ==
    Extracted1 =>
        /\ AscendingByStart(testFuncs)
        /\ \A order \in Injections(DOMAIN Pos) :
              LET fs == separateTestAndNonTestContent(lines, Pos, order).testFuncs
              IN /\ AscendingByStart(fs)
                 /\ \A k, j \in DOMAIN fs :
                       StartOf(fs[k].Name) < StartOf(fs[j].Name) => k < j

\* C13 witness: two blocks whose source order is the opposite of their name order.
C13_Witness ==
    /\ Extracted1
    /\ Len(testFuncs) = 2
    /\ StartOf(testFuncs[1].Name) < StartOf(testFuncs[2].Name)
    /\ StrLess(testFuncs[2].Name, testFuncs[1].Name)

\* C14 (as claimed): the partition is deterministic: every run on the same lines
\* and the same declaration positions returns the block sequence and the
\* remainder this run returned, also when two declarations start on the same line.
C14_PartitionDeterministic ==
    Extracted1 =>
        \A order \in Injections(DOMAIN Pos) :
            separateTestAndNonTestContent(lines, Pos, order)
                = [testFuncs |-> testFuncs, nonTestLines |-> nonTestLines]

\* Exec has returned (and main may have ended the process since).
ExecReturned == pc \in {"returned", "exited"} /\ err # ErrUsage

\* The input file of the command does not exist, or its text is one of the
\* texts that are not Go.
InputUnusable ==
    \/ ~filesBefore[pathInput].exists
    \/ filesBefore[pathInput].data \in {NotGoText, <<>>}

\* C15: when the input file cannot be read or is not valid Go, Exec returns an
\* error and writes nothing: no path other than the input path is opened, every
\* file is as it was before the call (the output path is neither created nor
\* modified), and no blocks, remainder or output text were computed.
C15_NoWriteOnReadOrParseError ==
    /\ (ExecReturned /\ InputUnusable) => err \in {ErrRead, ErrParse}
    /\ err \in {ErrRead, ErrParse} =>
          /\ InputUnusable
          /\ files = filesBefore
          /\ opened = {pathInput}
          /\ testFuncs = <<>> /\ nonTestLines = <<>> /\ output = <<>>

\* C15 witness: the input is not Go, the output path is another file that exists.
C15_Witness ==
    /\ ExecReturned
    /\ err = ErrParse
    /\ pathOutput # pathInput
    /\ filesBefore[pathOutput].exists

\* C16 (as claimed): when the write fails, Exec returns an error after the text
\* was computed, and the output path holds either the full computed text or
\* what it held before the call.
C16_WriteAllOrNothing ==
    (ExecReturned /\ err = ErrWrite) =>
        /\ output # <<>>
        /\ files[pathOutput] \in {File(output), filesBefore[pathOutput]}

\* C17: with no positional argument or more than two, the command ends with the
\* usage error and status 1 and has opened no file; with one or two it calls
\* Exec with the first argument as input path and the second, or else the
\* first, as output path, and ends with status 1 when Exec returned an error
\* and with status 0 when it did not.
C17_ArgumentsAndExitStatus ==
    pc = "exited" =>
        IF Len(args) = 0 \/ Len(args) > 2
        THEN /\ err = ErrUsage
             /\ exitCode = 1
             /\ opened = {}
             /\ files = filesBefore
        ELSE /\ pathInput = args[1]
             /\ pathOutput = args[Len(args)]
             /\ pathInput \in opened
             /\ err # ErrUsage
             /\ err # NoErr => exitCode = 1
             /\ err = NoErr => exitCode = 0 /\ files[pathOutput] = File(output)

\* C17 witness: a command line with three arguments has ended.
C17_Witness == pc = "exited" /\ Len(args) = 3 /\ filesBefore[args[1]].exists

\* C17 witness of the accepted case: one argument, the file was rewritten in place.
C17_WitnessInPlace ==
    pc = "exited" /\ Len(args) = 1 /\ exitCode = 0 /\ files # filesBefore

\* The line a classifier was called on.
CalledLine == At(callLines, callIdx)

Called(fn) == pc = "called" /\ callFn = fn

StartsWithCommentMarker(l) == Len(l) >= 2 /\ l[1] = "/" /\ l[2] \in {"/", "*"}

\* C18 (as claimed): isCommentOrEmpty returns true for an empty line, for a
\* whitespace-only line and for a line whose trimmed content starts with // or
\* with /*, and false for every other line.
C18_TrueForBlankOrComment ==
    Called("isCommentOrEmpty") =>
        callResult = (IsBlankLine(CalledLine) \/ IsCommentLine(CalledLine))

\* C18 (amended): given the trimmed line, as its caller gives it,
\* isCommentOrEmpty returns true for an empty line, for a whitespace-only line
\* and for a line whose trimmed content starts with // or with /*, and false for
\* every other line; given the line as it stands, it returns false for a
\* whitespace-only line and for a comment behind leading whitespace, and is
\* right for every line that neither begins nor ends with whitespace.
C18_TrueForTrimmedBlankOrComment ==
    Called("isCommentOrEmpty") =>
        /\ isCommentOrEmpty(TrimSpace(CalledLine))
               = (IsBlankLine(CalledLine) \/ IsCommentLine(CalledLine))
        /\ (CalledLine # <<>> /\ IsSpace(CalledLine[1])) => ~callResult
        /\ TrimSpace(CalledLine) = CalledLine =>
               callResult = (IsBlankLine(CalledLine) \/ IsCommentLine(CalledLine))

\* C18 witness: the call on a whitespace-only line returned false.
C18_Witness ==
    Called("isCommentOrEmpty") /\ CalledLine = WsLine /\ ~callResult /\ callIdx > 0

\* C19: isCommentOrEmpty looks at the start of the string only and does not
\* trim: it returns true iff the string is empty or its first two characters
\* are // or /*; a code line with // inside a string literal gives false, a
\* whitespace-only string gives false.
C19_LooksAtStartOnly ==
    Called("isCommentOrEmpty") =>
        /\ callResult = (CalledLine = <<>> \/ StartsWithCommentMarker(CalledLine))
        /\ CalledLine \in {StrLit, WsLine, IndentedComment} => ~callResult

\* C19 witness: the call on a line with // inside a string literal returned false.
C19_Witness == Called("isCommentOrEmpty") /\ CalledLine = StrLit /\ ~callResult

\* The line at index idx lies below an import ( line, and every line between
\* the two is an import path (a line with a double quote), a blank line or a
\* comment line (its trimmed content starts with // or with /*).
InsideImportBlock(ls, idx) ==
    \E o \in 0..(idx - 1) :
        /\ TrimSpace(At(ls, o)) = importBlockStart
        /\ \A j \in (o + 1)..(idx - 1) :
              \/ IsBlankLine(At(ls, j))
              \/ IsCommentLine(At(ls, j))
              \/ Contains(At(ls, j), "\"")

\* C20 (as claimed): for a ) line or a line with a double quote,
\* isEndOfImportBlock and isInImportBlock return true when all lines between it
\* and the import ( line above are import paths, blank lines or comment lines
\* (starting with // or with /*), and false when the scan upwards first meets a
\* package line or another line, or reaches the start of the file.
C20_ImportBlockScan ==
    (Called("isEndOfImportBlock") \/ Called("isInImportBlock")) =>
        callResult = InsideImportBlock(callLines, callIdx)

\* Line j is not real code: it is blank, a comment, a package line, a single-line
\* import or the import ( line, or it is an import path or the closing ) of a
\* multi-line import block.
NotRealCode(ls, j) ==
    LET t == TrimSpace(At(ls, j))
    IN \/ IsBlankLine(t)
       \/ IsCommentLine(t)
       \/ HasPrefix(t, << "p", "a", "c", "k", "a", "g", "e", " " >>)
       \/ HasPrefix(t, << "i", "m", "p", "o", "r", "t", " " >>)
       \/ (t = CloseParen \/ Contains(t, "\"")) /\ InsideImportBlock(ls, j)

\* C21 (as claimed): isCommentBeforeTestFunction(i, lines, start) returns false
\* for a blank line, for a line that is not a comment and for a line at or after
\* the declaration start, true for a comment on the line directly above the
\* declaration, and for a comment with lines between it and the declaration true
\* iff every line strictly between is blank and no line above the comment is
\* real code.
C21_CommentBelongs ==
    Called("isCommentBeforeTestFunction") =>
        LET i == callIdx
            s == callStart - 1
        IN callResult =
              (/\ i < s
               /\ IsCommentLine(CalledLine)
               /\ \/ i + 1 = s
                  \/ /\ \A k \in (i + 1)..(s - 1) : IsBlankLine(At(callLines, k))
                     /\ \A j \in 0..(i - 1) : NotRealCode(callLines, j))

\* Line i of the called lines is blank after trimming or starts, after trimming,
\* with // or with /*.
BlankOrCommentAt(i) == IsBlankLine(At(callLines, i)) \/ IsCommentLine(At(callLines, i))

\* C22: findCommentStart(lines, s) returns the smallest index r <= s such that
\* every line in [r, s-1] is blank or comment-prefixed after trimming: r = 0 or
\* line r-1 is neither; it returns s when the line directly above the
\* declaration is code.
C22_SmallestRunStart ==
    Called("findCommentStart") =>
        LET s == callIdx
            r == callResult
        IN /\ r \in 0..s
           /\ \A i \in r..(s - 1) : BlankOrCommentAt(i)
           /\ r = 0 \/ ~BlankOrCommentAt(r - 1)
           /\ \A q \in 0..s : (\A i \in q..(s - 1) : BlankOrCommentAt(i)) => r <= q
           /\ (s > 0 /\ ~BlankOrCommentAt(s - 1)) => r = s

\* C22 witness: the run holds a blank line between two comments, one of them
\* indented, and stops below a code line.
C22_Witness ==
    /\ Called("findCommentStart")
    /\ callIdx = 3
    /\ callResult = 1
    /\ At(callLines, 0) = Code
    /\ At(callLines, 1) = IndentedComment
    /\ At(callLines, 2) = WsLine

\* C22 witness of the empty run: the line above the declaration is code.
C22_WitnessCodeAbove ==
    Called("findCommentStart") /\ callIdx = 2 /\ callResult = 2 /\ At(callLines, 1) = StrLit

\* The lines without the line at 0-based index i.
RemoveAt(ls, i) == SubSeq(ls, 1, i) \o SubSeq(ls, i + 2, Len(ls))

\* The results the partition may return for the file with lines ls.
PartitionResults(ls) ==
    LET testFuncPos == buildTestFunctionPositions(ParseDecls(ls))
    IN {separateTestAndNonTestContent(ls, testFuncPos, order) :
           order \in Injections(DOMAIN testFuncPos)}

\* C23: every blank line of the run directly below a test function's end line is
\* marked as processed, so the remainder (the lines not marked) does not hold
\* it, and it is not in that function's block; unless it is also in the
\* blank/comment run above another test function, it is in no block at all,
\* and the partition returns what it returns for the file without that line.
C23_TrailingBlankDropped ==
    Extracted1 =>
        LET names == DOMAIN Pos
            start == [n \in names |-> StartOf(n)]
            end == [n \in names |-> EndOf(n)]
            lead == [n \in names |-> LeadingBoundary(n)]
            trail == [n \in names |-> TrailingBoundary(n)]
            all == 0..(Len(lines) - 1)
            processedLines ==
                markProcessedLines(lines,
                    createSortedFuncPositions(Pos, CHOOSE o \in Injections(names) : TRUE))
        IN \A n \in names : \A i \in (end[n] + 1)..trail[n] :
              /\ IsBlankLine(At(lines, i))
              /\ i \in processedLines
              /\ nonTestLines = LET u == LinesAt(lines, all \ processedLines, 0)
                                IN IF u = <<>> THEN u ELSE Append(u, Blank)
              /\ BlockOf(n).Lines = SubSeq(lines, lead[n] + 1, end[n] + 1)
              /\ (~\E m \in names : lead[m] <= i /\ i < start[m]) =>
                    /\ \A m \in names :
                          /\ BlockOf(m).Lines = SubSeq(lines, lead[m] + 1, end[m] + 1)
                          /\ i < lead[m] \/ i > end[m]
                    /\ [testFuncs |-> testFuncs, nonTestLines |-> nonTestLines]
                          \in PartitionResults(RemoveAt(lines, i))

\* C23 witness: two blank lines below a test function, a non-test function below
\* them, and no test function further down.
C23_Witness ==
    /\ Extracted1
    /\ \E n \in DOMAIN Pos :
          /\ TrailingBoundary(n) = EndOf(n) + 2
          /\ TrailingBoundary(n) + 1 < Len(lines)
          /\ At(lines, TrailingBoundary(n) + 1) = Helper
          /\ \A m \in DOMAIN Pos : StartOf(m) <= EndOf(n)

\* Line l holds the start of the declaration of function n.
DeclaresAt(l, n) ==
    \E k \in 1..Len(l) : HasPrefix(SubSeq(l, k, Len(l)), FuncKw \o n \o << "(" >>)

\* C24 (as claimed): buildTestFunctionPositions returns entries for Test-prefixed
\* function declarations only, each entry holds the 1-based first line and the
\* 1-based last line (the line of the closing brace) of a declaration of that
\* name, there is one entry per Test-prefixed declaration, and every
\* Test-prefixed declaration of the file is represented by an entry with its
\* lines.
C24_EveryTestDeclHasEntry ==
    Extracted1 =>
        LET tests == {k \in DOMAIN decls : HasPrefix(decls[k].name, TestPrefix)}
        IN /\ \A n \in DOMAIN Pos :
                 /\ HasPrefix(n, TestPrefix)
                 /\ \E k \in tests :
                       decls[k].name = n /\ Pos[n] = << decls[k].startLine, decls[k].endLine >>
                 /\ DeclaresAt(lines[Pos[n][1]], n)
                 /\ HasSuffix(TrimSpace(lines[Pos[n][2]]), Close)
           /\ Cardinality(DOMAIN Pos) = Cardinality(tests)
           /\ \A k \in tests :
                 /\ decls[k].name \in DOMAIN Pos
                 /\ Pos[decls[k].name] = << decls[k].startLine, decls[k].endLine >>

\* C25 (as claimed): BuildOutputContent strips all trailing blank lines from the
\* remainder, whatever the blocks are (also when there are none), then appends
\* one blank separator line iff the stripped remainder and the blocks are both
\* non-empty, and then emits the blocks: a remainder of blank lines only gives
\* no separator.
C25_StripThenSeparator ==
    pc = "built" =>
        LET stripped == UpToLastNonBlank(nonTestLines)
            separator == IF stripped # <<>> /\ testFuncs # <<>> THEN << Blank >> ELSE <<>>
        IN output = EnsureFinalNewline(
                        Join(stripped \o separator \o AppendFuncs(<<>>, testFuncs, 1), NL))

\* The lines without their leading and their trailing blank lines.
StripBlankEnds(ls) == UpToLastNonBlank(FromFirstNonBlank(ls))

\* The blocks from the k-th on, each without leading and trailing blank lines,
\* with one empty line between two blocks.
RECURSIVE StrippedBlocks(_, _)
StrippedBlocks(fs, k) ==
    IF k > Len(fs) THEN <<>>
    ELSE (IF k > 1 THEN << Blank >> ELSE <<>>)
         \o StripBlankEnds(fs[k].Lines) \o StrippedBlocks(fs, k + 1)

RECURSIVE StableSorted(_, _)
StableSorted(fs, S) ==
    IF S = {} THEN <<>>
    ELSE LET i == CHOOSE j \in S :
                     \A k \in S : /\ ~StrLess(fs[k].Name, fs[j].Name)
                                  /\ fs[k].Name = fs[j].Name => j <= k
         IN << fs[i] >> \o StableSorted(fs, S \ {i})

PositionsWellFormed ==
    /\ \A k \in DOMAIN decls :
          /\ 1 <= decls[k].startLine
          /\ decls[k].startLine <= decls[k].endLine
          /\ decls[k].endLine <= Len(lines)
          /\ ~BlankOrCommentLine(lines[decls[k].startLine])
          /\ ~BlankOrCommentLine(lines[decls[k].endLine])
    /\ \A j, k \in DOMAIN decls :
          j # k => decls[j].endLine < decls[k].startLine \/ decls[k].endLine < decls[j].startLine

\* C28: for lines and declaration positions that are in range, pairwise
\* non-overlapping and begin and end with a code line, the multiset of the
\* non-blank lines of the final output equals the multiset of the non-blank
\* input lines: no non-blank line is dropped, duplicated or altered.
C28_NonBlankLinesConserved ==
    (pc = "built" /\ PositionsWellFormed) =>
        BagOfSeq(SelectNonBlank(Split(output, NL))) = BagOfSeq(SelectNonBlank(lines))

\* C28 witness: two declarations in the opposite of their name order, a comment
\* above the first and a line between them, so that the output is not the input.
C28_Witness ==
    /\ pc = "built"
    /\ PositionsWellFormed
    /\ Len(decls) = 2
    /\ decls[2].endLine < decls[1].startLine
    /\ decls[2].startLine > 1 /\ lines[decls[2].startLine - 1] = Comment
    /\ decls[1].startLine - decls[2].endLine = 2
    /\ Split(output, NL) # lines \o << Blank >>
    /\ Split(output, NL) # lines

\* Declaration k starts inside the lines and ends below the last line.
EndsPastLastLine(k) ==
    /\ InBounds(lines, decls[k].startLine - 1)
    /\ decls[k].endLine - 1 >= Len(lines)

\* The lines the declarations that lie inside the file claim: for each, the run
\* above it, its lines and the blank run below it.
ClaimedByInRange ==
    UNION {LeadingBoundary(n)..TrailingBoundary(n) :
              n \in {m \in DOMAIN Pos : InBounds(lines, StartOf(m)) /\ InBounds(lines, EndOf(m))}}

\* C29 (as claimed): for a declaration whose start line is inside the file and
\* whose end line is past the last line, the partition does not fail (no line
\* outside the slice is read), returns no block for it and claims no line for
\* it: the remainder holds every line that no in-range declaration claims.
C29_OutOfRangeSkipped ==
    \A k \in DOMAIN decls :
        EndsPastLastLine(k) =>
            /\ pc # "panicked"
            /\ pc \in {"extracted", "built"} =>
                  /\ \A b \in DOMAIN testFuncs : testFuncs[b].Name # decls[k].name
                  /\ nonTestLines =
                        LET u == LinesAt(lines, (0..(Len(lines) - 1)) \ ClaimedByInRange, 0)
                        IN IF u = <<>> THEN u ELSE Append(u, Blank)

\* C9: the text BuildOutputContent returns ends with a newline; it is the joined
\* output lines themselves when they already end with a newline and the joined
\* lines plus one newline otherwise.
C9_FinalNewline ==
    pc = "built" =>
        LET joined == Join(OutputLines(testFuncs, nonTestLines), NL)
        IN /\ HasSuffix(output, <<NL>>)
           /\ \/ output = joined
              \/ output = joined \o <<NL>> /\ ~HasSuffix(joined, <<NL>>)

\* C9 witness: blocks were emitted and the joined lines already ended with a newline.
C9_Witness ==
    /\ pc = "built"
    /\ Len(testFuncs) > 0
    /\ HasSuffix(Join(OutputLines(testFuncs, nonTestLines), NL), <<NL>>)

====
